---- MODULE Spec2Model ----
(***************************************************************************)
(* A model of ajimi: the `fix` rewriter of generated regions (src/fix.rs)  *)
(* and the `check` consistency pass (src/check.rs) over a commit resolver  *)
(* (src/repo.rs).                                                          *)
(*                                                                         *)
(* Text.  A Rust string is modelled as a sequence of atoms.  An atom is a  *)
(* single punctuation character, digit, blank or line feed, or a whole     *)
(* word that no pattern of the program cuts ("ajimi::code", "change_id",   *)
(* "<!--", "old", ...).  Every string operation of the program (split,     *)
(* starts_with, contains, replace, trim, join, format!) is computed on     *)
(* these sequences the way the standard library computes it on characters. *)
(***************************************************************************)
EXTENDS Naturals, Sequences, FiniteSets, TLC

VARIABLES
    repo,       \* the CommitResolver the run works against (fix.rs:24)
    files,      \* the file system: contents of the files named in Args.files
    fidx,       \* position of Args::run's loop over self.files (fix.rs:25)
    pc,         \* position inside fix_file / Args::run
    lines,      \* the local `lines` of fix_file (fix.rs:35-38)
    stderr,     \* diagnostics printed by the normalize pass (fix.rs:59)
    events,     \* which kinds of failure happened during the run
    status,     \* how the process ends: "running", "ok", "err", "panic"
    run,        \* 1 for the first invocation of fix, 2 for a second one
    snapshot,   \* the files as the first invocation left them
    original,   \* the files as they were before the first invocation
    change_ids_in_book,     \* check.rs:110
    id_to_book_path,        \* check.rs:109
    change_ids_in_repo,     \* check.rs:139
    repo_order_map,         \* check.rs:144
    next_expected_order,    \* check.rs:148
    found_ids,              \* check.rs:149
    is_fix_needed,          \* check.rs:107
    stdout,                 \* what the check has printed
    cursor,                 \* position of the loop of check.rs:150 or check.rs:168
    diff_text,  \* the `input` a call of format_patch is given (fix.rs:101)
    formatted,  \* what that call of format_patch returned
    git_log,    \* what `git log` printed for all_commit_summary_in_tree (repo.rs:94)
    summary     \* what all_commit_summary_in_tree returned

fixVars == <<lines, stderr, events, run, snapshot, original>>
checkVars == <<change_ids_in_book, id_to_book_path, change_ids_in_repo, repo_order_map,
               next_expected_order, found_ids, is_fix_needed, stdout, cursor>>
formatVars == <<diff_text, formatted>>
logVars == <<git_log, summary>>
vars == <<repo, files, fidx, pc, status, fixVars, checkVars, formatVars, logVars>>

----------------------------------------------------------------------------
(* Bounds of the model. *)

MaxLines == 3
MaxFiles == 2
MaxBook == 3
MaxHistory == 3
MaxDiff == 4

----------------------------------------------------------------------------
(* str: operations of the Rust standard library, on sequences of atoms. *)

SP == " "
NL == "\n"
QUOTE == "\""
\* The three-backquote code fence of markdown, kept as one atom.
FENCE == "[fence]"

None == [some |-> FALSE, val |-> <<>>]
Some(v) == [some |-> TRUE, val |-> v]
Ok(v) == [ok |-> TRUE, val |-> v]
Err(e) == [ok |-> FALSE, val |-> e]

IsWhitespace(a) == a \in {SP, NL}

\* str::starts_with
StartsWith(s, p) == Len(s) >= Len(p) /\ \A k \in 1..Len(p) : s[k] = p[k]

\* str::ends_with
EndsWith(s, p) == Len(s) >= Len(p) /\ \A k \in 1..Len(p) : s[Len(s) - Len(p) + k] = p[k]

\* str::find: the first position at or after i where p occurs in s, 0 when
\* there is none.
RECURSIVE FindFrom(_, _, _)
FindFrom(s, p, i) ==
    IF i + Len(p) - 1 > Len(s) THEN 0
    ELSE IF \A k \in 1..Len(p) : s[i + k - 1] = p[k] THEN i
    ELSE FindFrom(s, p, i + 1)

Find(s, p) == FindFrom(s, p, 1)

\* str::contains
Contains(s, p) == Find(s, p) # 0

\* str::split_once
SplitOnce(s, p) ==
    LET i == Find(s, p)
    IN IF i = 0 THEN None
       ELSE Some(<<SubSeq(s, 1, i - 1), SubSeq(s, i + Len(p), Len(s))>>)

\* Option<(&str, &str)>::unwrap_or_default
PairOrDefault(o) == IF o.some THEN o.val ELSE <<<<>>, <<>>>>

\* str::split on a one-character pattern: at least one piece, empty pieces kept.
RECURSIVE Split(_, _)
Split(s, c) ==
    LET i == Find(s, <<c>>)
    IN IF i = 0 THEN <<s>>
       ELSE <<SubSeq(s, 1, i - 1)>> \o Split(SubSeq(s, i + 1, Len(s)), c)

\* str::split_inclusive: every piece keeps its terminator; no empty last piece.
RECURSIVE SplitInclusive(_, _)
SplitInclusive(s, c) ==
    LET i == Find(s, <<c>>)
    IN IF s = <<>> THEN <<>>
       ELSE IF i = 0 THEN <<s>>
       ELSE <<SubSeq(s, 1, i)>> \o SplitInclusive(SubSeq(s, i + 1, Len(s)), c)

\* [String]::join with a one-character separator.
RECURSIVE Join(_, _)
Join(parts, c) ==
    IF parts = <<>> THEN <<>>
    ELSE IF Len(parts) = 1 THEN parts[1]
    ELSE parts[1] \o <<c>> \o Join(Tail(parts), c)

\* str::replace of the word `from` by the word `to`.
StrReplace(s, from, to) == [i \in 1..Len(s) |-> IF s[i] = from THEN to ELSE s[i]]

\* str::trim_start / trim_end / trim
RECURSIVE TrimStart(_)
TrimStart(s) == IF s # <<>> /\ IsWhitespace(s[1]) THEN TrimStart(Tail(s)) ELSE s

RECURSIVE TrimEnd(_)
TrimEnd(s) ==
    IF s # <<>> /\ IsWhitespace(s[Len(s)]) THEN TrimEnd(SubSeq(s, 1, Len(s) - 1)) ELSE s

Trim(s) == TrimStart(TrimEnd(s))

\* str::trim_end_matches(c)
RECURSIVE TrimEndMatches(_, _)
TrimEndMatches(s, c) ==
    IF s # <<>> /\ s[Len(s)] = c THEN TrimEndMatches(SubSeq(s, 1, Len(s) - 1), c) ELSE s

\* str::strip_prefix
StripPrefix(s, p) == IF StartsWith(s, p) THEN Some(SubSeq(s, Len(p) + 1, Len(s))) ELSE None

\* s.split(' ').skip_while(|t| *t != word).nth(1): the piece after the first
\* piece equal to `word`.
TokenAfter(s, word) ==
    LET toks == Split(s, SP)
        at == {i \in 1..Len(toks) : toks[i] = <<word>>}
        first == CHOOSE i \in at : \A j \in at : i <= j
    IN IF at = {} THEN None
       ELSE IF first + 1 > Len(toks) THEN None
       ELSE Some(toks[first + 1])

\* Vec::push
Push(v, e) == Append(v, e)

----------------------------------------------------------------------------
(* The marker lines (spec section 6), as the format! calls build them. *)

COMMENT_OPEN == "<!--"
COMMENT_CLOSE == "-->"
AJIMI_CODE == "ajimi::code"
AJIMI_END == "ajimi::end"
CHANGE_ID == "change_id"
COMMIT == "commit"

\* format!("<!-- ajimi::code change_id {change_id} -->")
StartMarker(change_id) ==
    <<COMMENT_OPEN, SP, AJIMI_CODE, SP, CHANGE_ID, SP>> \o change_id \o <<SP, COMMENT_CLOSE>>

\* format!("<!-- ajimi::end change_id {change_id} -->")
EndMarker(change_id) ==
    <<COMMENT_OPEN, SP, AJIMI_END, SP, CHANGE_ID, SP>> \o change_id \o <<SP, COMMENT_CLOSE>>

\* format!("<!-- ajimi::meta::title \"{title}\" -->")
TitleLine(title) ==
    <<COMMENT_OPEN, SP, "ajimi::meta::title", SP, QUOTE>> \o title \o <<QUOTE, SP, COMMENT_CLOSE>>

\* The raw form of a start marker, as an author writes it.
CommitMarker(ref) ==
    <<COMMENT_OPEN, SP, AJIMI_CODE, SP, COMMIT, SP>> \o ref \o <<SP, COMMENT_CLOSE>>

----------------------------------------------------------------------------
(* CommitResolver (src/repo.rs).  A resolver is a record                   *)
(*   commits : commit reference -> Change-Id, for the references `git log` *)
(*             resolves to a commit carrying a Change-Id trailer;          *)
(*   patches : change id -> output of `git log -1 -p --grep`, for the ids  *)
(*             the command succeeds on;                                    *)
(*   blobs   : <<commit, file>> -> the lines of `git show commit:file`.    *)
(* Everything else is an Err of the backend.                               *)

change_id_from_commit_id(r, commit_id) ==
    IF commit_id \in DOMAIN r.commits THEN Ok(r.commits[commit_id])
    ELSE Err("git cmd failed")

patch_from_change_id(r, change_id) ==
    IF change_id \in DOMAIN r.patches THEN Ok(r.patches[change_id])
    ELSE Err("git cmd failed")

line_from_commit(r, commit_id, file, line_number) ==
    IF line_number < 1 THEN Err("line_number < 1")
    ELSE IF <<commit_id, file>> \notin DOMAIN r.blobs THEN Err("git cmd failed")
    ELSE IF line_number > Len(r.blobs[<<commit_id, file>>]) THEN Err("Line out of range")
    ELSE Ok(r.blobs[<<commit_id, file>>][line_number])

----------------------------------------------------------------------------
(* fix.rs: pass 1, replace_commit_id_with_change_id. *)

\* The test of fix.rs:52 and fix.rs:244.
IsCodeMarker(line) == Contains(line, <<AJIMI_CODE>>) /\ StartsWith(line, <<COMMENT_OPEN>>)

\* A faulty variant of ReplaceStep: a marker whose commit does not resolve is
\* reported and then left out of the output.
ReplaceStepDropsInvalid(r, acc, ln, line) ==
    LET commit == TokenAfter(line, COMMIT)
        change_id == change_id_from_commit_id(r, commit.val)
    IN IF IsCodeMarker(line) /\ commit.some
       THEN IF change_id.ok
            THEN [acc EXCEPT !.lines_updated = Push(@, StartMarker(change_id.val))]
            ELSE [acc EXCEPT !.stderr = Push(@, <<"Invalid commit at line", ln>>)]
       ELSE [acc EXCEPT !.lines_updated = Push(@, line)]

\* One iteration of the loop of fix.rs:51-66; acc = [lines_updated, stderr].
ReplaceStep(r, acc, ln, line) ==
    LET commit == TokenAfter(line, COMMIT)
        change_id == change_id_from_commit_id(r, commit.val)
    IN IF IsCodeMarker(line) /\ commit.some
       THEN IF change_id.ok
            THEN [acc EXCEPT !.lines_updated = Push(@, StartMarker(change_id.val))]
            ELSE [acc EXCEPT !.lines_updated = Push(@, line),
                             !.stderr = Push(@, <<"Invalid commit at line", ln>>)]
       ELSE [acc EXCEPT !.lines_updated = Push(@, line)]

RECURSIVE ReplaceLoop(_, _, _, _)
ReplaceLoop(r, ls, i, acc) ==
    IF i > Len(ls) THEN acc
    ELSE ReplaceLoop(r, ls, i + 1, ReplaceStep(r, acc, i - 1, ls[i]))

\* The pass always returns Ok(lines_updated) (fix.rs:67).
replace_commit_id_with_change_id(r, ls) ==
    LET acc == ReplaceLoop(r, ls, 1, [lines_updated |-> <<>>, stderr |-> <<>>])
    IN [result |-> Ok(acc.lines_updated), stderr |-> acc.stderr]

----------------------------------------------------------------------------
(* fix.rs: pass 2, remove_generated_lines. *)

\* The test of fix.rs:75.
IsChangeIdMarker(line) ==
    StartsWith(line, <<COMMENT_OPEN>>) /\ Contains(line, <<AJIMI_CODE, SP, CHANGE_ID>>)

\* line.replace("ajimi::code", "ajimi::end") (fix.rs:82)
DerivedEndMarker(line) == StrReplace(line, AJIMI_CODE, AJIMI_END)

\* A faulty variant of RemoveStep: a start marker that arrives while lines are
\* pending discards them instead of flushing them.
RemoveStepDropsOrphans(st, line) ==
    IF IsChangeIdMarker(line)
    THEN [lines_updated |-> Push(st.lines_updated, line),
          lines_pending |-> <<>>,
          end_marker_for_pending |-> Some(DerivedEndMarker(line))]
    ELSE IF Some(line) = st.end_marker_for_pending
    THEN [st EXCEPT !.lines_pending = <<>>, !.end_marker_for_pending = None]
    ELSE IF st.end_marker_for_pending.some
    THEN [st EXCEPT !.lines_pending = Push(@, line)]
    ELSE [st EXCEPT !.lines_updated = Push(@, line)]

\* One iteration of the loop of fix.rs:74-94.
RemoveStep(st, line) ==
    IF IsChangeIdMarker(line)
    THEN [lines_updated |->
              Push(IF st.end_marker_for_pending.some
                   THEN st.lines_updated \o st.lines_pending
                   ELSE st.lines_updated, line),
          lines_pending |->
              IF st.end_marker_for_pending.some THEN <<>> ELSE st.lines_pending,
          end_marker_for_pending |-> Some(DerivedEndMarker(line))]
    ELSE IF Some(line) = st.end_marker_for_pending
    THEN [st EXCEPT !.lines_pending = <<>>, !.end_marker_for_pending = None]
    ELSE IF st.end_marker_for_pending.some
    THEN [st EXCEPT !.lines_pending = Push(@, line)]
    ELSE [st EXCEPT !.lines_updated = Push(@, line)]

RECURSIVE RemoveLoop(_, _, _)
RemoveLoop(ls, i, st) ==
    IF i > Len(ls) THEN st ELSE RemoveLoop(ls, i + 1, RemoveStep(st, ls[i]))

\* A faulty variant of remove_generated_lines: the tail case is missing, so
\* the body of an unterminated region is lost.
RemoveGeneratedLinesNoTail(ls) ==
    LET st == RemoveLoop(ls, 1, [lines_updated |-> <<>>, lines_pending |-> <<>>,
                                 end_marker_for_pending |-> None])
    IN Ok(st.lines_updated)

\* fix.rs:96: the tail case appends what is still pending.
remove_generated_lines(ls) ==
    LET st == RemoveLoop(ls, 1, [lines_updated |-> <<>>, lines_pending |-> <<>>,
                                 end_marker_for_pending |-> None])
    IN Ok(st.lines_updated \o st.lines_pending)

----------------------------------------------------------------------------
(* fix.rs: format_patch.  A result is [status, output]: status "ok" is     *)
(* Ok(output), "err" is an Err returned with anyhow!, "panic" is an unwrap *)
(* or todo! that aborts the process.                                       *)

DIFF_GIT == <<"diff", SP, "-", "-", "git">>
HUNK_MARK == "@@"
BRACE == "{"
\* The words of the elision marker and of the file-name note are Japanese in
\* the source (fix.rs:137, 159, 202); they are written here in Latin letters.
CHURYAKU == "chuuryaku"
NOTE_OPEN == "(chuu:"
ELISION == <<"//", SP, "<<", SP, CHURYAKU, SP, ">>">>
INDENT == <<SP, SP, SP, SP>>

Digits == <<"0", "1", "2", "3", "4", "5", "6", "7", "8", "9">>
IsDigit(a) == \E d \in 1..10 : Digits[d] = a
DigitValue(a) == (CHOOSE d \in 1..10 : Digits[d] = a) - 1

RECURSIVE DecimalValue(_)
DecimalValue(s) ==
    IF s = <<>> THEN 0
    ELSE 10 * DecimalValue(SubSeq(s, 1, Len(s) - 1)) + DigitValue(s[Len(s)])

\* str::parse::<usize>().unwrap_or_default(): an optional '+', then digits.
ParseUsizeOrDefault(s) ==
    LET digits == IF s # <<>> /\ s[1] = "+" THEN Tail(s) ELSE s
    IN IF digits # <<>> /\ \A i \in 1..Len(digits) : IsDigit(digits[i])
       THEN DecimalValue(digits)
       ELSE 0

\* usize::saturating_sub
SaturatingSub(a, b) == IF a >= b THEN a - b ELSE 0

\* slice::chunk_by(|_, b| !b.starts_with("diff --git")) (fix.rs:107-110): a new
\* chunk begins at every element that starts with the header.
RECURSIVE ChunkByDiffHeader(_, _, _)
ChunkByDiffHeader(parts, i, acc) ==
    IF i > Len(parts) THEN acc
    ELSE IF i = 1 \/ StartsWith(parts[i], DIFF_GIT)
    THEN ChunkByDiffHeader(parts, i + 1, Append(acc, <<parts[i]>>))
    ELSE ChunkByDiffHeader(parts, i + 1,
                           [acc EXCEPT ![Len(acc)] = Append(@, parts[i])])

\* The language table of fix.rs:125-135.
FenceLang(filename) ==
    IF EndsWith(filename, <<".rs">>) THEN Some("rust,noplayground")
    ELSE IF EndsWith(filename, <<".gitignore">>) \/ EndsWith(filename, <<".lock">>)
    THEN Some("gitconfig")
    ELSE IF EndsWith(filename, <<".toml">>) THEN Some("toml")
    ELSE IF EndsWith(filename, <<".sh">>) THEN Some("bash_script_file")
    ELSE None

\* A faulty variant of IsDiffMetadata: the index line is not dropped.
IsDiffMetadataKeepsIndex(line) ==
    \/ StartsWith(line, DIFF_GIT)
    \/ StartsWith(line, <<"new", SP, "file">>)
    \/ StartsWith(line, <<"-", "-", "-">>)
    \/ StartsWith(line, <<"+", "+", "+">>)

\* The lines the fold of fix.rs:138-146 drops.
IsDiffMetadata(line) ==
    \/ StartsWith(line, DIFF_GIT)
    \/ StartsWith(line, <<"new", SP, "file">>)
    \/ StartsWith(line, <<"-", "-", "-">>)
    \/ StartsWith(line, <<"+", "+", "+">>)
    \/ StartsWith(line, <<"index", SP>>)

\* The fold of fix.rs:138-152; acc = [panic, hunks].  acc.last_mut().unwrap()
\* panics on a content line that no @@ line precedes.
RECURSIVE HunksFold(_, _, _)
HunksFold(ls, i, acc) ==
    IF i > Len(ls) \/ acc.panic THEN acc
    ELSE IF IsDiffMetadata(ls[i]) THEN HunksFold(ls, i + 1, acc)
    ELSE LET opened == IF StartsWith(ls[i], <<HUNK_MARK>>)
                       THEN Append(acc.hunks, <<>>) ELSE acc.hunks
         IN IF opened = <<>> THEN [acc EXCEPT !.panic = TRUE]
            ELSE HunksFold(ls, i + 1,
                     [acc EXCEPT !.hunks = [opened EXCEPT ![Len(opened)] = Append(@, ls[i])]])

\* fix.rs:157-207: a line of a hunk that starts with "@@ ".
HunkHeaderStep(st, line, hunk, r, commit_id, filename) ==
    LET elide == st.num_diff_lines > 0 /\ ~StartsWith(line, <<HUNK_MARK, SP, "-", "1", ",">>)
        output1 == IF elide THEN st.output \o <<NL>> \o ELISION \o <<NL, NL>> ELSE st.output
        context0 == PairOrDefault(SplitOnce(PairOrDefault(SplitOnce(line, <<HUNK_MARK>>))[2],
                                            <<HUNK_MARK>>))
        lineinfo == PairOrDefault(SplitOnce(
                        PairOrDefault(SplitOnce(Trim(context0[1]), <<SP>>))[2], <<",">>))[1]
        afterlinestart == ParseUsizeOrDefault(lineinfo)
        stripped == StripPrefix(context0[2], <<SP>>)
        context == TrimEnd(IF stripped.some THEN stripped.val ELSE <<>>)
        fetched == line_from_commit(r, commit_id.val, filename, SaturatingSub(afterlinestart, 1))
        line_before_hunk == IF commit_id.some /\ fetched.ok THEN fetched.val ELSE <<>>
        substantive == {i \in 1..Len(hunk) :
                            ~StartsWith(hunk[i], <<HUNK_MARK, SP>>) /\ Len(hunk[i]) > 0}
        first == CHOOSE i \in substantive : \A j \in substantive : i <= j
    IN IF ~EndsWith(context, <<BRACE>>) THEN [st EXCEPT !.output = output1]
       ELSE IF substantive = {} THEN [st EXCEPT !.status = "panic", !.output = output1]
       ELSE IF StartsWith(hunk[first], INDENT) /\ context \notin st.context_marker_appeared
       THEN [st EXCEPT
                !.output = output1 \o context \o <<NL>> \o
                           (IF context # TrimEnd(line_before_hunk)
                            THEN INDENT \o ELISION \o <<NL>> ELSE <<>>),
                !.context_marker_appeared = @ \cup {context}]
       ELSE [st EXCEPT !.output = output1]

\* A faulty variant of HunkContentStep: the wrappers of added and removed
\* lines are exchanged.
HunkContentStepSwapped(st, line) ==
    LET diff_type == line[1]
        text == TrimEndMatches(Tail(line), NL)
        pre == IF diff_type = "+" THEN <<"~~">>
               ELSE IF diff_type = "-" THEN <<"**">>
               ELSE <<>>
    IN IF text = <<>> THEN [st EXCEPT !.output = @ \o <<NL>>]
       ELSE IF diff_type \notin {"+", "-", SP} THEN [st EXCEPT !.status = "panic"]
       ELSE [st EXCEPT
                !.output = @ \o pre \o text \o pre \o <<NL>>,
                !.num_diff_lines = @ + 1,
                !.context_marker_appeared =
                    IF StartsWith(text, <<"fn", SP>>) THEN @ \cup {text} ELSE @]

\* A faulty variant of HunkContentStep: a line of an unknown type is skipped.
HunkContentStepSkipsUnknown(st, line) ==
    LET diff_type == line[1]
        text == TrimEndMatches(Tail(line), NL)
        pre == IF diff_type = "+" THEN <<"**">>
               ELSE IF diff_type = "-" THEN <<"~~">>
               ELSE <<>>
    IN IF text = <<>> THEN [st EXCEPT !.output = @ \o <<NL>>]
       ELSE IF diff_type \notin {"+", "-", SP} THEN st
       ELSE [st EXCEPT
                !.output = @ \o pre \o text \o pre \o <<NL>>,
                !.num_diff_lines = @ + 1,
                !.context_marker_appeared =
                    IF StartsWith(text, <<"fn", SP>>) THEN @ \cup {text} ELSE @]

\* fix.rs:209-230: a content line of a hunk.
HunkContentStep(st, line) ==
    LET diff_type == line[1]
        text == TrimEndMatches(Tail(line), NL)
        pre == IF diff_type = "+" THEN <<"**">>
               ELSE IF diff_type = "-" THEN <<"~~">>
               ELSE <<>>
    IN IF text = <<>> THEN [st EXCEPT !.output = @ \o <<NL>>]
       ELSE IF diff_type \notin {"+", "-", SP} THEN [st EXCEPT !.status = "panic"]
       ELSE [st EXCEPT
                !.output = @ \o pre \o text \o pre \o <<NL>>,
                !.num_diff_lines = @ + 1,
                !.context_marker_appeared =
                    IF StartsWith(text, <<"fn", SP>>) THEN @ \cup {text} ELSE @]

\* The inner loop of fix.rs:156-231 over the lines of one hunk.
RECURSIVE HunkLoop(_, _, _, _, _, _)
HunkLoop(st, hunk, i, r, commit_id, filename) ==
    IF i > Len(hunk) \/ st.status # "ok" THEN st
    ELSE HunkLoop(IF StartsWith(hunk[i], <<HUNK_MARK, SP>>)
                  THEN HunkHeaderStep(st, hunk[i], hunk, r, commit_id, filename)
                  ELSE HunkContentStep(st, hunk[i]),
                  hunk, i + 1, r, commit_id, filename)

\* The outer loop of fix.rs:155 over the hunks of one file segment.
RECURSIVE HunksLoop(_, _, _, _, _, _)
HunksLoop(st, hunks, h, r, commit_id, filename) ==
    IF h > Len(hunks) \/ st.status # "ok" THEN st
    ELSE HunksLoop(HunkLoop(st, hunks[h], 1, r, commit_id, filename),
                   hunks, h + 1, r, commit_id, filename)

\* fix.rs:112-233: one part; `output` is what format_patch has built so far.
FormatPart(output, part, r, commit_id) ==
    LET ls == SplitInclusive(part, NL)
        toks == Split(ls[1], SP)
        name == IF Len(toks) >= 3 THEN StripPrefix(toks[3], <<"a/">>) ELSE None
        filename == name.val
        lang == FenceLang(filename)
        opened == output \o <<NL, FENCE, lang.val, NL>> \o <<NOTE_OPEN>> \o filename \o <<")", NL>>
        fold == HunksFold(ls, 1, [panic |-> FALSE, hunks |-> <<>>])
        st == HunksLoop([status |-> "ok", output |-> opened, num_diff_lines |-> 0,
                         context_marker_appeared |-> {}],
                        fold.hunks, 1, r, commit_id, filename)
    IN IF Trim(part) = <<>> THEN [status |-> "ok", output |-> output]
       ELSE IF ~StartsWith(part, DIFF_GIT) THEN [status |-> "err", output |-> output]
       ELSE IF ~name.some THEN [status |-> "panic", output |-> output]
       ELSE IF ~lang.some THEN [status |-> "err", output |-> output]
       ELSE IF fold.panic THEN [status |-> "panic", output |-> opened]
       ELSE IF st.status # "ok" THEN [status |-> st.status, output |-> st.output]
       ELSE [status |-> "ok", output |-> st.output \o <<FENCE, NL>>]

RECURSIVE FormatParts(_, _, _, _, _)
FormatParts(res, parts, i, r, commit_id) ==
    IF i > Len(parts) \/ res.status # "ok" THEN res
    ELSE FormatParts(FormatPart(res.output, parts[i], r, commit_id), parts, i + 1, r, commit_id)

JoinAll(chunks) == [i \in 1..Len(chunks) |-> Join(chunks[i], NL)]

format_patch(input, r, commit_id) ==
    FormatParts([status |-> "ok", output |-> <<>>],
                JoinAll(ChunkByDiffHeader(Split(input, NL), 1, <<>>)), 1, r, commit_id)

----------------------------------------------------------------------------
(* fix.rs: pass 3, insert_commit_diff_with_change_id.                      *)
(* acc = [status, lines_updated, fetch_failed, malformed]; fetch_failed    *)
(* records that some patch_from_change_id returned Err (the code prints    *)
(* nothing then), malformed that a fetched patch could not be rendered.    *)

\* A faulty variant of InsertStep: a patch lookup that returns an error ends
\* the pass with that error.
InsertStepFatalFetch(r, acc, line) ==
    LET change_id == TokenAfter(line, CHANGE_ID)
        patch == patch_from_change_id(r, change_id.val)
        patch_lines == Split(Trim(patch.val), NL)
        head == SplitOnce(patch_lines[1], <<":", SP>>)
        hash == head.val[1]
        title == head.val[2]
        rendered == format_patch(Join(Tail(patch_lines), NL), r, Some(hash))
    IN IF ~(IsCodeMarker(line) /\ change_id.some)
       THEN [acc EXCEPT !.lines_updated = Push(@, line)]
       ELSE IF ~patch.ok THEN [acc EXCEPT !.fetch_failed = TRUE, !.status = "err"]
       ELSE IF ~head.some THEN [acc EXCEPT !.status = "panic", !.malformed = TRUE]
       ELSE IF rendered.status # "ok"
       THEN [acc EXCEPT !.status = rendered.status, !.malformed = TRUE]
       ELSE [acc EXCEPT !.lines_updated =
                @ \o <<line, TitleLine(title), rendered.output, EndMarker(change_id.val)>>]

InsertStep(r, acc, line) ==
    LET change_id == TokenAfter(line, CHANGE_ID)
        patch == patch_from_change_id(r, change_id.val)
        patch_lines == Split(Trim(patch.val), NL)
        head == SplitOnce(patch_lines[1], <<":", SP>>)
        hash == head.val[1]
        title == head.val[2]
        rendered == format_patch(Join(Tail(patch_lines), NL), r, Some(hash))
    IN IF ~(IsCodeMarker(line) /\ change_id.some)
       THEN [acc EXCEPT !.lines_updated = Push(@, line)]
       ELSE IF ~patch.ok THEN [acc EXCEPT !.fetch_failed = TRUE]
       ELSE IF ~head.some THEN [acc EXCEPT !.status = "panic", !.malformed = TRUE]
       ELSE IF rendered.status # "ok"
       THEN [acc EXCEPT !.status = rendered.status, !.malformed = TRUE]
       ELSE [acc EXCEPT !.lines_updated =
                @ \o <<line, TitleLine(title), rendered.output, EndMarker(change_id.val)>>]

RECURSIVE InsertLoop(_, _, _, _)
InsertLoop(r, ls, i, acc) ==
    IF i > Len(ls) \/ acc.status # "ok" THEN acc
    ELSE InsertLoop(r, ls, i + 1, InsertStep(r, acc, ls[i]))

insert_commit_diff_with_change_id(r, ls) ==
    InsertLoop(r, ls, 1, [status |-> "ok", lines_updated |-> <<>>,
                          fetch_failed |-> FALSE, malformed |-> FALSE])

----------------------------------------------------------------------------
(* The documents and resolvers the fix runs are explored over. *)

\* A line of prose: words separated by single blanks.
RECURSIVE Words(_)
Words(ws) ==
    IF ws = <<>> THEN <<>>
    ELSE IF Len(ws) = 1 THEN <<ws[1]>>
    ELSE <<ws[1], SP>> \o Words(Tail(ws))

\* A text of whole lines, each ended by a line feed.
RECURSIVE Text(_)
Text(ls) == IF ls = <<>> THEN <<>> ELSE ls[1] \o <<NL>> \o Text(Tail(ls))

ID_X == <<"X">>
ID_Z == <<"Z">>
REF_GOOD == <<"85fd15d">>
REF_BROKEN == <<"broken_commit_id">>
MAIN_RS == <<"src/main", ".rs">>

HunkHeader11 == <<HUNK_MARK, SP, "-", "1", ",", "1", SP, "+", "1", ",", "1", SP, HUNK_MARK>>

\* `git log -1 -p --pretty="%h: %s"` of a one-line change to src/main.rs.
PatchOfX ==
    Text(<<
        <<"abc123", ":", SP, "Title">>,
        <<>>,
        DIFF_GIT \o <<SP, "a/">> \o MAIN_RS \o <<SP, "b/">> \o MAIN_RS,
        <<"index", SP, "e7a11a9..2c7001e", SP, "100644">>,
        <<"-", "-", "-", SP, "a/">> \o MAIN_RS,
        <<"+", "+", "+", SP, "b/">> \o MAIN_RS,
        HunkHeader11,
        <<"-", "old">>,
        <<"+", "new">>
    >>)

\* The patch of the end-to-end scenario of spec section 8: no `diff --git` line.
PatchOfScenario ==
    Text(<<
        <<"abc123", ":", SP, "Title">>,
        <<>>,
        HunkHeader11,
        <<"-", "old">>,
        <<"+", "new">>
    >>)

\* Z has no patch: patch_from_change_id(Z) is an Err.
RepoGit ==
    [commits |-> (REF_GOOD :> ID_X),
     patches |-> (ID_X :> PatchOfX),
     blobs |-> (<<<<"abc123">>, MAIN_RS>> :> << <<"old">> >>),
     history |-> <<>>]

RepoScenario == [RepoGit EXCEPT !.patches = (ID_X :> PatchOfScenario)]

\* No commit message mentions Z: `git log --grep` succeeds and prints nothing.
RepoNoMatch == [RepoGit EXCEPT !.patches = (ID_X :> PatchOfX) @@ (ID_Z :> <<>>)]

FixRepos == {RepoGit, RepoScenario, RepoNoMatch}

OldBody == Words(<<"old", "body">>)
\* A start marker written with a blank after the closing "-->".
LooseStartMarker == StartMarker(ID_X) \o <<SP>>

DocLines ==
    {StartMarker(ID_X), EndMarker(ID_X), StartMarker(ID_Z),
     CommitMarker(REF_GOOD), CommitMarker(REF_BROKEN), OldBody}

\* The documents of exactly n lines drawn from vocabulary, as file contents.
DocsOfLength(vocabulary, n) == {Join(ls, NL) : ls \in [1..n -> vocabulary]}

\* The lists of n files holding `budget` lines or fewer altogether.
RECURSIVE FileLists(_, _, _)
FileLists(vocabulary, n, budget) ==
    IF n = 0 THEN {<<>>}
    ELSE UNION {{<<d>> \o rest : d \in DocsOfLength(vocabulary, k),
                                 rest \in FileLists(vocabulary, n - 1, budget - k)} :
                k \in 1..(budget - (n - 1))}

FixFileLists == UNION {FileLists(DocLines, n, MaxLines) : n \in 1..MaxFiles}

\* The document of the end-to-end scenario.
ScenarioDoc == Join(<<StartMarker(ID_X), OldBody, EndMarker(ID_X)>>, NL)

\* The scenario document with a blank after its start marker.
LooseDoc == Join(<<LooseStartMarker, OldBody, EndMarker(ID_X)>>, NL)

\* The whole documents every resolver of FixRepos is explored over.
WholeDocs == {ScenarioDoc, LooseDoc, LooseStartMarker, OldBody, StartMarker(ID_Z)}
WholeFileLists == UNION {[1..n -> WholeDocs] : n \in 1..MaxFiles}

----------------------------------------------------------------------------
(* fix.rs: Args::run and fix_file as a state machine.                      *)
(* pc: "open" (fix.rs:25-34), "replace" (36), "remove" (37), "insert" (38),*)
(* "write" (39-42), "exit" (the process has ended with `status`).          *)

\* No call of format_patch and no call of all_commit_summary_in_tree is
\* followed on its own.
NotCalled == [status |-> "none", output |-> <<>>]
CallsIdle ==
    diff_text = <<>> /\ formatted = NotCalled /\ git_log = <<>> /\ summary = NotCalled

\* The check is not running: its locals hold nothing.
CheckIdle ==
    /\ change_ids_in_book = <<>>
    /\ id_to_book_path = <<>>
    /\ change_ids_in_repo = <<>>
    /\ repo_order_map = <<>>
    /\ next_expected_order = 0
    /\ found_ids = {}
    /\ is_fix_needed = FALSE
    /\ stdout = <<>>
    /\ cursor = 1

InitFix ==
    /\ \/ repo = RepoGit /\ files \in FixFileLists
       \/ repo \in FixRepos /\ files \in WholeFileLists
    /\ original = files
    /\ fidx = 1
    /\ pc = "open"
    /\ lines = <<>>
    /\ stderr = <<>>
    /\ events = {}
    /\ status = "running"
    /\ run = 1
    /\ snapshot = <<>>
    /\ CheckIdle
    /\ CallsIdle

\* fix.rs:34-35: read_to_string succeeds; the content is split at line feeds.
ReadFile ==
    /\ pc = "open" /\ fidx <= Len(files)
    /\ lines' = Split(files[fidx], NL)
    /\ pc' = "replace"
    /\ UNCHANGED <<formatVars, logVars, repo, files, fidx, status, stderr, events, run, snapshot, original, checkVars>>

\* fix.rs:34: read_to_string fails and expect() panics.
ReadFileFails ==
    /\ pc = "open" /\ fidx <= Len(files)
    /\ status' = "panic"
    /\ events' = events \cup {"io"}
    /\ pc' = "exit"
    /\ UNCHANGED <<formatVars, logVars, repo, files, fidx, lines, stderr, run, snapshot, original, checkVars>>

\* fix.rs:36
ReplacePass ==
    /\ pc = "replace"
    /\ \E res \in {replace_commit_id_with_change_id(repo, lines)} :
          /\ lines' = res.result.val
          /\ stderr' = stderr \o res.stderr
          /\ events' = IF res.stderr # <<>> THEN events \cup {"unresolved"} ELSE events
          /\ pc' = IF res.result.ok THEN "remove" ELSE "exit"
          /\ status' = IF res.result.ok THEN status ELSE "err"
    /\ UNCHANGED <<formatVars, logVars, repo, files, fidx, run, snapshot, original, checkVars>>

\* fix.rs:37
RemovePass ==
    /\ pc = "remove"
    /\ lines' = remove_generated_lines(lines).val
    /\ pc' = "insert"
    /\ UNCHANGED <<formatVars, logVars, repo, files, fidx, status, stderr, events, run, snapshot, original, checkVars>>

\* fix.rs:38: on Ok the lines are replaced; an Err is returned through `?`
\* (fix.rs:27) and main; a panic aborts the process.
InsertPass ==
    /\ pc = "insert"
    /\ \E acc \in {insert_commit_diff_with_change_id(repo, lines)} :
          /\ lines' = IF acc.status = "ok" THEN acc.lines_updated ELSE lines
          /\ pc' = IF acc.status = "ok" THEN "write" ELSE "exit"
          /\ status' = IF acc.status = "ok" THEN status ELSE acc.status
          /\ events' = events \cup (IF acc.fetch_failed THEN {"fetch"} ELSE {})
                              \cup (IF acc.malformed THEN {"format"} ELSE {})
    /\ UNCHANGED <<formatVars, logVars, repo, files, fidx, stderr, run, snapshot, original, checkVars>>

\* fix.rs:39-43, 25: the file is rewritten and the loop goes on.
WriteFile ==
    /\ pc = "write"
    /\ files' = [files EXCEPT ![fidx] = Join(lines, NL)]
    /\ fidx' = fidx + 1
    /\ pc' = "open"
    /\ UNCHANGED <<formatVars, logVars, repo, lines, status, stderr, events, run, snapshot, original, checkVars>>

\* fix.rs:40-42: File::create fails (the file is untouched) or write_all fails
\* after create has truncated the file; either Err ends the run.
WriteFileFails ==
    /\ pc = "write"
    /\ \E left \in {files[fidx], <<>>} : files' = [files EXCEPT ![fidx] = left]
    /\ status' = "err"
    /\ events' = events \cup {"io"}
    /\ pc' = "exit"
    /\ UNCHANGED <<formatVars, logVars, repo, fidx, lines, stderr, run, snapshot, original, checkVars>>

\* fix.rs:29: every file is done, run returns Ok(()).
Finish ==
    /\ pc = "open" /\ fidx > Len(files)
    /\ status' = "ok"
    /\ pc' = "exit"
    /\ UNCHANGED <<formatVars, logVars, repo, files, fidx, lines, stderr, events, run, snapshot, original, checkVars>>

\* The operator runs `fix` once more on the files the first run wrote, against
\* the same history.
Rerun ==
    /\ pc = "exit" /\ status = "ok" /\ run = 1
    /\ run' = 2
    /\ snapshot' = files
    /\ fidx' = 1
    /\ pc' = "open"
    /\ status' = "running"
    /\ stderr' = <<>>
    /\ events' = {}
    /\ lines' = <<>>
    /\ UNCHANGED <<formatVars, logVars, repo, files, original, checkVars>>

NextFix ==
    \/ ReadFile
    \/ ReadFileFails
    \/ ReplacePass
    \/ RemovePass
    \/ InsertPass
    \/ WriteFile
    \/ WriteFileFails
    \/ Finish
    \/ Rerun

SpecFix == InitFix /\ [][NextFix]_vars

----------------------------------------------------------------------------
(* Properties of the fix run. *)

\* The content a file of the given lines has on disk.
Document(ls) == Join(ls, NL)

\* a is a subsequence of b: the elements of a occur in b, in the same order.
RECURSIVE IsSubsequence(_, _)
IsSubsequence(a, b) ==
    IF a = <<>> THEN TRUE
    ELSE IF b = <<>> THEN FALSE
    ELSE IF a[1] = b[1] THEN IsSubsequence(Tail(a), Tail(b))
    ELSE IsSubsequence(a, Tail(b))

\* The elements of ls at the positions in keep, from position i on, in order.
RECURSIVE SelectByIndex(_, _, _)
SelectByIndex(ls, i, keep) ==
    IF i > Len(ls) THEN <<>>
    ELSE (IF i \in keep THEN <<ls[i]>> ELSE <<>>) \o SelectByIndex(ls, i + 1, keep)

\* Lines j and k of ls are a start marker and the end marker derived from it,
\* with neither a start marker nor that end marker between them.
IsMarkerPair(ls, j, k) ==
    /\ j < k
    /\ ls[k] = DerivedEndMarker(ls[j])
    /\ IsChangeIdMarker(ls[j])
    /\ \A m \in (j + 1)..(k - 1) :
           ~IsChangeIdMarker(ls[m]) /\ ls[m] # DerivedEndMarker(ls[j])

\* Line i of ls is the body or the end marker of a marker pair.
InsidePair(ls, i) ==
    \E j \in 1..(i - 1) : IsChangeIdMarker(ls[j]) /\ \E k \in i..Len(ls) : IsMarkerPair(ls, j, k)

\* A raw start marker whose commit reference the resolver resolves; the
\* canonical line it stands for.
IsResolvableRaw(line) == \E ref \in DOMAIN repo.commits : line = CommitMarker(ref)
CanonicalOf(line) ==
    IF IsResolvableRaw(line)
    THEN StartMarker(repo.commits[CHOOSE ref \in DOMAIN repo.commits : line = CommitMarker(ref)])
    ELSE line
Canonical(ls) == [i \in 1..Len(ls) |-> CanonicalOf(ls[i])]

\* The lines of a document that are no marker and lie outside every pair.
OutsideLines(ls, canonical) ==
    SelectByIndex(ls, 1, {i \in 1..Len(ls) :
                             ~IsCodeMarker(ls[i]) /\ ~InsidePair(canonical, i)})

\* C1 (as claimed): idempotence of the full rewrite. When a second run of fix
\* over the files the first run wrote ends successfully, against the same
\* resolver, every file is exactly what the first run left.
RewriteIdempotent ==
    (run = 2 /\ pc = "exit" /\ status = "ok") => files = snapshot

\* C2: region isolation. When the three passes are through with a file, every
\* line of the file on disk that is no marker and lies outside every
\* start/end marker pair is in the lines about to be written, unchanged and in
\* the same relative order.
RegionIsolation ==
    pc = "write" =>
        \A ls \in {Split(files[fidx], NL)} : \A canonical \in {Canonical(ls)} :
            IsSubsequence(OutsideLines(ls, canonical), Split(Document(lines), NL))

RegionIsolationWitness ==
    /\ pc = "write" /\ run = 1
    /\ files[fidx] = Document(<<OldBody, StartMarker(ID_X), EndMarker(ID_X)>>)
    /\ Len(lines) > 3
    /\ lines[1] = OldBody

\* The expected output of the end-to-end scenario.
ScenarioRendering ==
    <<StartMarker(ID_X),
      TitleLine(<<"Title">>),
      <<>>,
      <<FENCE, "rust,noplayground">>,
      <<NOTE_OPEN>> \o MAIN_RS \o <<")">>,
      <<"~~", "old", "~~">>,
      <<"**", "new", "**">>,
      <<FENCE>>,
      <<>>,
      EndMarker(ID_X)>>

ScenarioEnded ==
    /\ run = 1 /\ pc = "exit" /\ "io" \notin events
    /\ original = <<ScenarioDoc>>

\* What the scenario promises of the rewritten file: start marker, title line,
\* a fenced rendering with ~~old~~ and **new**, end marker, in this order, and
\* no line "old body".
ScenarioPromise(content) ==
    LET out == Split(content, NL)
    IN /\ Len(out) >= 6
       /\ out[1] = StartMarker(ID_X)
       /\ out[2] = TitleLine(<<"Title">>)
       /\ out[Len(out)] = EndMarker(ID_X)
       /\ \E a, b, c, d \in 3..(Len(out) - 1) :
              /\ a < b /\ b < c /\ c < d
              /\ StartsWith(out[a], <<FENCE>>)
              /\ out[b] = <<"~~", "old", "~~">>
              /\ out[c] = <<"**", "new", "**">>
              /\ out[d] = <<FENCE>>
       /\ \A i \in 1..Len(out) : out[i] # OldBody

\* C3 (as claimed): with the scenario's patch, which has no `diff --git` line,
\* the rewrite of the scenario document completes and yields the promised file.
ScenarioAsClaimed ==
    (ScenarioEnded /\ repo = RepoScenario) => (status = "ok" /\ ScenarioPromise(files[1]))

\* C3 (amended): with the scenario's patch the rewrite ends in an error and
\* leaves the file as it was; with the same change as git prints it, under a
\* `diff --git a/src/main.rs b/src/main.rs` header, it completes and the file
\* is the start marker, the title line, the fenced rendering and the end marker.
ScenarioAmended ==
    ScenarioEnded =>
        IF repo = RepoScenario
        THEN status = "err" /\ files = original
        ELSE /\ status = "ok"
             /\ files[1] = Document(ScenarioRendering)
             /\ ScenarioPromise(files[1])

ScenarioWitness == ScenarioEnded /\ repo = RepoGit /\ status = "ok"

\* Line i of ls is dropped by the strip pass exactly when it is the body or
\* the end marker of a marker pair.
KeptByStrip(ls) ==
    SelectByIndex(ls, 1, {i \in 1..Len(ls) : ~InsidePair(ls, i)})

\* C4: orphan recovery. The strip pass drops a line only when it follows a
\* start marker whose derived end marker is reached before the next start
\* marker; every other line, in particular every line pending when a second
\* start marker or the end of the document arrives, stays where it was.
OrphanRecovery == [][pc = "remove" => lines' = KeptByStrip(lines)]_vars

OrphanRecoveryWitness ==
    /\ pc = "insert" /\ run = 1
    /\ files[fidx] = Document(<<StartMarker(ID_X), OldBody, StartMarker(ID_Z)>>)
    /\ lines = <<StartMarker(ID_X), OldBody, StartMarker(ID_Z)>>

\* A canonical start marker whose patch lookup is an Err.
IsFailingStart(line) ==
    \E id \in {ID_X, ID_Z} : line = StartMarker(id) /\ ~patch_from_change_id(repo, id).ok

\* C5 (as claimed): soft-fail of the re-insertion. Every canonical start marker
\* whose fetch_patch lookup returns an error is still a line of the output of
\* the re-insert pass.
SoftFailKeepsMarker ==
    [][(pc = "insert" /\ pc' = "write") =>
           \A i \in 1..Len(lines) :
               IsFailingStart(lines[i]) => \E j \in 1..Len(lines') : lines'[j] = lines[i]]_vars

\* C6: the normalize pass returns success, keeps the number of lines, turns
\* every raw marker whose commit reference resolves into the canonical marker of
\* the resolved change id, and leaves every other line as it is.
NormalizeOnlyResolved ==
    [][pc = "replace" =>
           /\ pc' = "remove"
           /\ Len(lines') = Len(lines)
           /\ \A i \in 1..Len(lines) : lines'[i] = CanonicalOf(lines[i])]_vars

NormalizeWitness ==
    /\ pc = "remove" /\ run = 1
    /\ files[fidx] = Document(<<CommitMarker(REF_GOOD), CommitMarker(REF_BROKEN),
                                StartMarker(ID_X)>>)
    /\ lines = <<StartMarker(ID_X), CommitMarker(REF_BROKEN), StartMarker(ID_X)>>
    /\ stderr # <<>>

\* C10 (as claimed): the run fails whenever a file operation failed, a commit
\* reference did not resolve or a patch could not be fetched.
FixFailsOnAnyFailure ==
    pc = "exit" => ((events \cap {"io", "unresolved", "fetch"} # {}) => status # "ok")

\* C10 (amended): the run fails exactly when a file operation failed or a
\* fetched patch could not be rendered; a commit reference that does not
\* resolve and a patch lookup that returns an error do not make it fail.
FixFailsOnIoOrFormat ==
    pc = "exit" => (status # "ok" <=> (events \cap {"io", "format"} # {}))

FixExitWitness ==
    /\ pc = "exit" /\ status = "ok" /\ run = 1
    /\ "unresolved" \in events /\ "fetch" \in events

----------------------------------------------------------------------------
(* check.rs: Args::verify_generated_code, the consistency pass.            *)

SKIP_EXPLAIN == <<"SKIP_EXPLAIN", ":", SP>>
ID_Y == <<"Y">>

\* Iterator::rev
Reverse(v) == [i \in 1..Len(v) |-> v[Len(v) + 1 - i]]

\* check.rs:114-125: the change ids of the marker lines of one file, in order.
RECURSIVE ExtractChangeIds(_, _)
ExtractChangeIds(ls, i) ==
    IF i > Len(ls) THEN <<>>
    ELSE IF Contains(ls[i], <<AJIMI_CODE, SP, CHANGE_ID>>)
    THEN LET id == TokenAfter(ls[i], CHANGE_ID)
         IN <<IF id.some THEN id.val ELSE <<"invalid">>>> \o ExtractChangeIds(ls, i + 1)
    ELSE ExtractChangeIds(ls, i + 1)

\* HashMap::extend (check.rs:126-131): every id of the file now maps to it.
ExtendPaths(map, ids, path) ==
    [id \in DOMAIN map \cup {ids[i] : i \in 1..Len(ids)} |->
        IF \E i \in 1..Len(ids) : ids[i] = id THEN path ELSE map[id]]

CHANGE_ID_KEY == <<"Change-Id", ":">>
COMMIT_KEY == <<"COMMIT", ":">>

\* What `git log --pretty=COMMIT:%H:%s%n%B` (repo.rs:83-94) prints for one
\* commit: the line of the format, then the message, which is the title, an
\* empty line and one line for every Change-Id the commit carries, then the
\* line feed that ends the entry.
LogOfCommit(c) ==
    Text(<<COMMIT_KEY \o c.hash \o <<":">> \o c.title, c.title, <<>>>>
             \o [i \in 1..Len(c.change_ids) |-> CHANGE_ID_KEY \o <<SP>> \o c.change_ids[i]])
        \o <<NL>>

\* The output of the command for the commits of a tree, newest first.
RECURSIVE GitLog(_)
GitLog(commits) ==
    IF commits = <<>> THEN <<>> ELSE LogOfCommit(commits[1]) \o GitLog(Tail(commits))

\* The commits of a resolver's history as git holds them: each carries the
\* one Change-Id of its entry.
TreeOf(history) ==
    [i \in 1..Len(history) |->
        [hash |-> history[i].hash, title |-> history[i].title,
         change_ids |-> <<history[i].change_id>>]]

\* repo.rs:105: the lines of the log that are kept.
IsSummaryLine(e) == StartsWith(e, CHANGE_ID_KEY) \/ StartsWith(e, COMMIT_KEY)

\* repo.rs:110-126: the CommitMetadata made of two kept lines that follow
\* each other.
CommitMetadataOf(commit_info, change_id_line) ==
    LET it == Split(commit_info, ":")
        pieces == Split(change_id_line, ":")
    IN [hash |-> Trim(IF Len(it) >= 2 THEN it[2] ELSE <<>>),
        title |-> Join(SubSeq(it, 3, Len(it)), ":"),
        change_id |-> Trim(pieces[Len(pieces)])]

\* slice::chunks_exact(2) (repo.rs:109): the kept lines two by two; a line
\* left over at the end is dropped.
RECURSIVE ChunksExact2(_, _)
ChunksExact2(ls, i) ==
    IF i + 1 > Len(ls) THEN <<>>
    ELSE <<CommitMetadataOf(ls[i], ls[i + 1])>> \o ChunksExact2(ls, i + 2)

\* repo.rs:102-127: the entries read off the output of the command.
CommitSummaries(out) == ChunksExact2(SelectSeq(Split(out, NL), IsSummaryLine), 1)

\* GitRepo::all_commit_summary_in_tree, newest commit first.
all_commit_summary_in_tree(r) == Ok(CommitSummaries(GitLog(TreeOf(r.history))))

\* check.rs:144-147: the position of every change id, oldest commit first; a
\* later insert of the same key replaces the earlier one.
RECURSIVE BuildOrderMap(_, _, _)
BuildOrderMap(rev, i, map) ==
    IF i > Len(rev) THEN map
    ELSE BuildOrderMap(rev, i + 1, (rev[i].change_id :> (i - 1)) @@ map)

\* The lines check prints, as records.
OrderReport(id, path) == [kind |-> "order should not go back", id |-> id, path |-> path]
NotFoundReport(id, path) ==
    [kind |-> "change_id not found in the code", id |-> id, path |-> path]
NotInBookReport(e) == [kind |-> "change in code but book", id |-> e.change_id, path |-> e.title]
TotalReport(where, n) == [kind |-> "Total", id |-> where, path |-> n]
PassBanner == [kind |-> "PASS", id |-> <<>>, path |-> <<>>]

\* A faulty variant of ScanVerdict: an identifier at the watermark itself is
\* accepted only when it is strictly above it.
ScanVerdictOffByOne(order, expected) == IF order <= expected THEN "back" ELSE "accept"

\* check.rs:156: an identifier found in history goes back when its position is
\* below the watermark, and is accepted otherwise.
ScanVerdict(order, expected) == IF order < expected THEN "back" ELSE "accept"

\* A faulty variant of AdvanceOrder: the watermark is set to the position of
\* the accepted identifier, not past it.
AdvanceOrderNoStep(order, expected) == order

\* A faulty variant of AdvanceOrder: the watermark is left where it is.
AdvanceOrderStuck(order, expected) == expected

\* check.rs:160: the watermark after an accepted identifier.
AdvanceOrder(order, expected) == order + 1

\* A faulty variant of IsUnexplained: the exemption marker is not looked at.
IsUnexplainedNoExemption(e, found) == e.change_id \notin found

\* check.rs:169: a history entry is reported when its id was not found in the
\* book and its title does not carry the exemption marker.
IsUnexplained(e, found) == e.change_id \notin found /\ ~Contains(e.title, SKIP_EXPLAIN)

----------------------------------------------------------------------------
(* check.rs: the fenced-block language pass and the image-caption pass.    *)

\* BufRead::lines / str::lines: the lines of a text without their line feeds;
\* a line feed at the very end opens no further line.
Lines(content) ==
    LET pieces == Split(content, NL)
    IN IF pieces[Len(pieces)] = <<>> THEN SubSeq(pieces, 1, Len(pieces) - 1) ELSE pieces

\* The lines the two passes print, as records.
BlankLangReport(file, line_num, line) ==
    [kind |-> "blank block lang", id |-> line, path |-> <<file, line_num>>]
UnknownLangReport(file, line_num, line) ==
    [kind |-> "Unknown block lang", id |-> line, path |-> <<file, line_num>>]
ImageReport(file, line_num, tag, imgline) ==
    [kind |-> "image", id |-> <<tag, imgline>>, path |-> <<file, line_num>>]

\* check.rs:40-57: the fences of one file. A fence met while no block is open
\* opens one and is recorded; a fence met inside a block closes it.
RECURSIVE CodeblockScan(_, _, _, _)
CodeblockScan(ls, i, open, path) ==
    IF i > Len(ls) THEN [open |-> open, results |-> <<>>]
    ELSE IF StartsWith(ls[i], <<FENCE>>)
    THEN IF ~open
         THEN LET rest == CodeblockScan(ls, i + 1, TRUE, path)
              IN [rest EXCEPT !.results =
                      <<[file |-> path, line_num |-> i, line |-> ls[i]]>> \o @]
         ELSE CodeblockScan(ls, i + 1, FALSE, path)
    ELSE CodeblockScan(ls, i + 1, open, path)

\* check.rs:28-69: the opening fences of all files, or the error of the first
\* file that ends inside a block.
RECURSIVE extract_codeblock_start_markers(_, _)
extract_codeblock_start_markers(paths, p) ==
    IF p > Len(paths) THEN Ok(<<>>)
    ELSE LET scan == CodeblockScan(Lines(paths[p]), 1, FALSE, p)
         IN IF scan.open THEN Err("Unclosed code block")
            ELSE LET rest == extract_codeblock_start_markers(paths, p + 1)
                 IN IF rest.ok THEN Ok(scan.results \o rest.val) ELSE rest

\* check.rs:83-84: the language tags the book may use.
KNOWN_LANGS ==
    {<<"rust,noplayground">>, <<"rust">>, <<"bash">>, <<"txt">>, <<"toml">>,
     <<"bash_script_file">>, <<"gitconfig">>}

\* check.rs:82-97: what the pass makes of one opening fence.
CodeblockVerdict(lang, is_first_codeblock) ==
    IF lang \in KNOWN_LANGS THEN "ok"
    ELSE IF lang = <<>> THEN (IF is_first_codeblock THEN "ok" ELSE "blank")
    ELSE "unknown"

\* check.rs:72-98: the diagnostics of the language pass, in order.
\* prev_file_name is 0 while it is None.
RECURSIVE CodeblockReports(_, _, _)
CodeblockReports(markers, i, prev_file_name) ==
    IF i > Len(markers) THEN <<>>
    ELSE LET m == markers[i]
             stripped == StripPrefix(m.line, <<FENCE>>)
             lang == IF stripped.some THEN stripped.val ELSE <<>>
             is_first_codeblock == prev_file_name = 0 \/ prev_file_name # m.file
             verdict == CodeblockVerdict(lang, is_first_codeblock)
             here == IF verdict = "blank"
                     THEN <<BlankLangReport(m.file, m.line_num, m.line)>>
                     ELSE IF verdict = "unknown"
                     THEN <<UnknownLangReport(m.file, m.line_num, m.line)>>
                     ELSE <<>>
         IN here \o CodeblockReports(markers, i + 1, m.file)

\* check.rs:189, 198: Regex `!\[(.*?)\]\((.*?)\)` matches somewhere in the line.
IsImage(line) ==
    \E i \in 1..Len(line) :
        /\ line[i] = "!" /\ i + 1 <= Len(line) /\ line[i + 1] = "["
        /\ \E j \in (i + 2)..(Len(line) - 1) :
              /\ line[j] = "]" /\ line[j + 1] = "("
              /\ \E k \in (j + 2)..Len(line) : line[k] = ")"

\* check.rs:197-207: the image lines of one file with the comment line before
\* each. i is the 0-based index of the loop `for i in 1..lines.len()`.
RECURSIVE ImageScan(_, _, _)
ImageScan(ls, i, path) ==
    IF i >= Len(ls) THEN <<>>
    ELSE IF ~IsImage(ls[i + 1]) THEN ImageScan(ls, i + 1, path)
    ELSE <<[file |-> path, line_num |-> i - 1,
            tag |-> IF StartsWith(ls[i], <<COMMENT_OPEN, SP>>) THEN Some(ls[i]) ELSE None,
            imgline |-> ls[i + 1]]>> \o ImageScan(ls, i + 1, path)

\* check.rs:185-210
RECURSIVE extract_image_source_comments(_, _)
extract_image_source_comments(paths, p) ==
    IF p > Len(paths) THEN <<>>
    ELSE ImageScan(Lines(paths[p]), 1, p) \o extract_image_source_comments(paths, p + 1)

\* check.rs:215: an image is flagged without a comment before it, or with an
\* empty caption.
IsFlaggedImage(m) == ~m.tag.some \/ Contains(m.imgline, <<"!", "[", "]">>)

\* check.rs:214-219: the diagnostics of the image pass, in order.
RECURSIVE ImageReports(_, _)
ImageReports(markers, i) ==
    IF i > Len(markers) THEN <<>>
    ELSE (IF IsFlaggedImage(markers[i])
          THEN <<ImageReport(markers[i].file, markers[i].line_num,
                             markers[i].tag, markers[i].imgline)>>
          ELSE <<>>) \o ImageReports(markers, i + 1)

\* A faulty variant of AfterPass: the run goes on after a pass that failed.
AfterPassGoesOn(found, next) == next

\* check.rs:228-230: `?` ends the run at the first pass that returns an error,
\* and the next pass starts otherwise.
AfterPass(found, next) == IF found THEN "exit" ELSE next

----------------------------------------------------------------------------
(* The books and histories the check runs are explored over. *)

CheckIds == {ID_X, ID_Y, ID_Z}
\* The lines of a book: a start marker of each id, and a line of prose.
BookLines == {StartMarker(id) : id \in CheckIds} \cup {Words(<<"Some", "prose">>)}

TitleOf(id) ==
    IF id = ID_Z THEN SKIP_EXPLAIN \o Words(<<"Add", "scripts">>)
    ELSE Words(<<"Impl", "hexdump">>)

\* The commit that carries change id `id`; the commit of Z is exempt.
CommitOf(id) == [hash |-> <<"commit-of-">> \o id, title |-> TitleOf(id), change_id |-> id]

\* Histories: no change id is carried by two commits (spec section 3).
Histories ==
    UNION {{[i \in 1..n |-> CommitOf(ids[i])] :
               ids \in {f \in [1..n -> CheckIds] : \A i, j \in 1..n : i # j => f[i] # f[j]}} :
           n \in 0..MaxHistory}

CheckRepos == {[RepoGit EXCEPT !.history = h] : h \in Histories}

CheckFileLists == UNION {FileLists(BookLines, n, MaxBook) : n \in 1..MaxFiles}

\* The pages the language pass and the image pass are explored over: a marker
\* of a change id history does not have, a comment line, an image with and
\* without a caption, a block without a language, a block in a language the
\* book does not use, and a lone fence of a known language.
CAPTION == <<COMMENT_OPEN, SP, "source", SP, COMMENT_CLOSE>>
IMAGE == <<"!", "[", "cap", "]", "(", "img.png", ")">>
EMPTY_IMAGE == <<"!", "[", "]", "(", "img.png", ")">>
FenceLine(lang) == <<FENCE>> \o lang
BlankBlock == Join(<<FenceLine(<<>>), FenceLine(<<>>)>>, NL)
UnknownBlock == Join(<<FenceLine(<<"c">>), FenceLine(<<>>)>>, NL)
PageUnits ==
    {StartMarker(ID_Y), CAPTION, IMAGE, EMPTY_IMAGE, BlankBlock, UnknownBlock,
     FenceLine(<<"rust">>)}
\* The history of the pages holds one exempt commit.
PageRepo == [RepoGit EXCEPT !.history = <<CommitOf(ID_Z)>>]
PageFileLists == UNION {FileLists(PageUnits, n, MaxBook) : n \in 1..MaxFiles}

----------------------------------------------------------------------------
(* check.rs: verify_generated_code as a state machine.                     *)
(* pc: "collect" (check.rs:112-133), "scan" (150-167), "report" (168-177), *)
(* "verdict" (178-183), "codeblocks" (the pass returned Ok and Args::run   *)
(* goes on, check.rs:229), "images" (check.rs:230), "exit" (the process    *)
(* has ended with `status`).                                               *)

InitCheck ==
    /\ \/ repo \in CheckRepos /\ files \in CheckFileLists
       \/ repo = PageRepo /\ files \in PageFileLists
    /\ fidx = 1
    /\ pc = "collect"
    /\ status = "running"
    /\ lines = <<>> /\ stderr = <<>> /\ events = {} /\ run = 1
    /\ snapshot = <<>> /\ original = files
    /\ CheckIdle
    /\ CallsIdle

\* check.rs:113-132: one file is read and its change ids are collected.
CollectFile ==
    /\ pc = "collect" /\ fidx <= Len(files)
    /\ \E ids \in {ExtractChangeIds(Split(files[fidx], NL), 1)} :
          /\ id_to_book_path' = ExtendPaths(id_to_book_path, ids, fidx)
          /\ change_ids_in_book' = change_ids_in_book \o ids
    /\ fidx' = fidx + 1
    /\ UNCHANGED <<formatVars, logVars, repo, files, pc, status, fixVars, change_ids_in_repo, repo_order_map,
                   next_expected_order, found_ids, is_fix_needed, stdout, cursor>>

\* check.rs:113: read_to_string fails and `?` returns the error.
CollectFileFails ==
    /\ pc = "collect" /\ fidx <= Len(files)
    /\ events' = events \cup {"io"}
    /\ status' = "err"
    /\ pc' = "exit"
    /\ UNCHANGED <<formatVars, logVars, repo, files, fidx, lines, stderr, run, snapshot, original, checkVars>>

\* check.rs:134-149: the totals are printed, history is read and indexed.
LoadHistory ==
    /\ pc = "collect" /\ fidx > Len(files)
    /\ \E log \in {all_commit_summary_in_tree(repo)} :
          /\ change_ids_in_repo' = log.val
          /\ repo_order_map' = BuildOrderMap(Reverse(log.val), 1, <<>>)
          /\ stdout' = stdout \o <<TotalReport("book", Len(change_ids_in_book)),
                                   TotalReport("repo", Len(log.val))>>
          /\ pc' = IF change_ids_in_book # <<>> THEN "scan"
                   ELSE IF log.val # <<>> THEN "report" ELSE "verdict"
    /\ next_expected_order' = 0
    /\ found_ids' = {}
    /\ cursor' = 1
    /\ UNCHANGED <<formatVars, logVars, repo, files, fidx, status, fixVars, change_ids_in_book, id_to_book_path,
                   is_fix_needed>>

\* check.rs:139: the backend command fails and `?` returns the error.
LoadHistoryFails ==
    /\ pc = "collect" /\ fidx > Len(files)
    /\ stdout' = stdout \o <<TotalReport("book", Len(change_ids_in_book))>>
    /\ events' = events \cup {"backend"}
    /\ status' = "err"
    /\ pc' = "exit"
    /\ UNCHANGED <<formatVars, logVars, repo, files, fidx, lines, stderr, run, snapshot, original,
                   change_ids_in_book, id_to_book_path,
                   change_ids_in_repo, repo_order_map, next_expected_order, found_ids,
                   is_fix_needed, cursor>>

\* Where the run goes once the loop over the book (check.rs:150) is through.
AfterScan(at) ==
    IF at <= Len(change_ids_in_book) THEN "scan"
    ELSE IF change_ids_in_repo # <<>> THEN "report" ELSE "verdict"

\* check.rs:150-167: one identifier of the book.
ScanStep ==
    /\ pc = "scan" /\ cursor <= Len(change_ids_in_book)
    /\ LET id_in_book == change_ids_in_book[cursor]
           book_path == IF id_in_book \in DOMAIN id_to_book_path
                        THEN id_to_book_path[id_in_book] ELSE "?"
       IN IF id_in_book \in DOMAIN repo_order_map
          THEN /\ IF ScanVerdict(repo_order_map[id_in_book], next_expected_order) = "back"
                  THEN /\ stdout' = Append(stdout, OrderReport(id_in_book, book_path))
                       /\ is_fix_needed' = TRUE
                       /\ UNCHANGED next_expected_order
                  ELSE /\ next_expected_order' =
                              AdvanceOrder(repo_order_map[id_in_book], next_expected_order)
                       /\ UNCHANGED <<stdout, is_fix_needed>>
               /\ found_ids' = found_ids \cup {id_in_book}
          ELSE /\ stdout' = Append(stdout, NotFoundReport(id_in_book, book_path))
               /\ is_fix_needed' = TRUE
               /\ UNCHANGED <<next_expected_order, found_ids>>
    /\ cursor' = IF cursor + 1 <= Len(change_ids_in_book) THEN cursor + 1 ELSE 1
    /\ pc' = AfterScan(cursor + 1)
    /\ UNCHANGED <<formatVars, logVars, repo, files, fidx, status, fixVars, change_ids_in_book, id_to_book_path,
                   change_ids_in_repo, repo_order_map>>

\* check.rs:168-177: one commit of history, oldest first.
ReportStep ==
    /\ pc = "report" /\ cursor <= Len(change_ids_in_repo)
    /\ LET e == Reverse(change_ids_in_repo)[cursor]
       IN IF IsUnexplained(e, found_ids)
          THEN /\ stdout' = Append(stdout, NotInBookReport(e))
               /\ is_fix_needed' = TRUE
          ELSE UNCHANGED <<stdout, is_fix_needed>>
    /\ cursor' = cursor + 1
    /\ pc' = IF cursor + 1 <= Len(change_ids_in_repo) THEN "report" ELSE "verdict"
    /\ UNCHANGED <<formatVars, logVars, repo, files, fidx, status, fixVars, change_ids_in_book, id_to_book_path,
                   change_ids_in_repo, repo_order_map, next_expected_order, found_ids>>

\* check.rs:178-183, 228: the pass fails and ends the run, or prints its banner
\* and hands over to the next pass.
GeneratedCodeVerdict ==
    /\ pc = "verdict"
    /\ IF is_fix_needed
       THEN status' = "err" /\ pc' = "exit" /\ UNCHANGED stdout
       ELSE stdout' = Append(stdout, PassBanner) /\ pc' = "codeblocks" /\ UNCHANGED status
    /\ UNCHANGED <<formatVars, logVars, repo, files, fidx, fixVars, change_ids_in_book, id_to_book_path,
                   change_ids_in_repo, repo_order_map, next_expected_order, found_ids,
                   is_fix_needed, cursor>>

\* check.rs:70-105, 229: the language pass. It ends the run when a file ends
\* inside a block or when a fence carries a language the book does not use,
\* and prints its banner and hands over to the image pass otherwise.
VerifyCodeblocks ==
    /\ pc = "codeblocks"
    /\ \E found \in {extract_codeblock_start_markers(files, 1)} :
          IF ~found.ok
          THEN /\ events' = events \cup {"unclosed"}
               /\ pc' = "exit"
               /\ UNCHANGED stdout
          ELSE \E reports \in {CodeblockReports(found.val, 1, 0)} :
                  /\ stdout' = stdout \o (IF reports = <<>> THEN <<PassBanner>> ELSE reports)
                  /\ pc' = AfterPass(reports # <<>>, "images")
                  /\ UNCHANGED events
    /\ status' = IF pc' = "exit" THEN "err" ELSE status
    /\ UNCHANGED <<formatVars, logVars, repo, files, fidx, lines, stderr, run, snapshot, original,
                   change_ids_in_book, id_to_book_path, change_ids_in_repo,
                   repo_order_map, next_expected_order, found_ids, is_fix_needed, cursor>>

\* check.rs:36, 41: a file cannot be opened or read and `?` returns the error
\* before anything is printed.
VerifyCodeblocksFails ==
    /\ pc = "codeblocks"
    /\ events' = events \cup {"io"}
    /\ status' = "err"
    /\ pc' = "exit"
    /\ UNCHANGED <<formatVars, logVars, repo, files, fidx, lines, stderr, run, snapshot, original, checkVars>>

\* check.rs:211-226, 230-231: the image pass, and the end of the run.
VerifyImages ==
    /\ pc = "images"
    /\ \E reports \in {ImageReports(extract_image_source_comments(files, 1), 1)} :
          /\ stdout' = stdout \o (IF reports = <<>> THEN <<PassBanner>> ELSE reports)
          /\ status' = IF reports # <<>> THEN "err" ELSE "ok"
    /\ pc' = "exit"
    /\ UNCHANGED <<formatVars, logVars, repo, files, fidx, fixVars, change_ids_in_book, id_to_book_path,
                   change_ids_in_repo, repo_order_map, next_expected_order, found_ids,
                   is_fix_needed, cursor>>

\* check.rs:193-194: a file cannot be read and `?` returns the error before
\* anything is printed.
VerifyImagesFails ==
    /\ pc = "images"
    /\ events' = events \cup {"io"}
    /\ status' = "err"
    /\ pc' = "exit"
    /\ UNCHANGED <<formatVars, logVars, repo, files, fidx, lines, stderr, run, snapshot, original, checkVars>>

NextCheck ==
    \/ CollectFile
    \/ CollectFileFails
    \/ LoadHistory
    \/ LoadHistoryFails
    \/ ScanStep
    \/ ReportStep
    \/ GeneratedCodeVerdict
    \/ VerifyCodeblocks
    \/ VerifyCodeblocksFails
    \/ VerifyImages
    \/ VerifyImagesFails

SpecCheck == InitCheck /\ [][NextCheck]_vars

----------------------------------------------------------------------------
(* Properties of the consistency pass. The book and the history are read   *)
(* off `files` and `repo`, not off what the pass has collected.             *)

\* The ids of the start markers of one file, in line order.
RECURSIVE MarkedIds(_, _)
MarkedIds(ls, i) ==
    IF i > Len(ls) THEN <<>>
    ELSE IF \E id \in CheckIds : ls[i] = StartMarker(id)
    THEN <<CHOOSE id \in CheckIds : ls[i] = StartMarker(id)>> \o MarkedIds(ls, i + 1)
    ELSE MarkedIds(ls, i + 1)

\* The ids the book refers to, in scan order.
RECURSIVE BookFrom(_)
BookFrom(f) ==
    IF f > Len(files) THEN <<>>
    ELSE MarkedIds(Split(files[f], NL), 1) \o BookFrom(f + 1)

Book == BookFrom(1)
IdsOf(book) == {book[i] : i \in 1..Len(book)}

Chronological == Reverse(repo.history)
HistoryIds == {repo.history[i].change_id : i \in 1..Len(repo.history)}

\* The chronological position of an id of history (oldest commit = 0).
Position(id) == (CHOOSE i \in 1..Len(Chronological) : Chronological[i].change_id = id) - 1
Positions(book) == [i \in 1..Len(book) |-> Position(book[i])]

AllValid(book) == \A i \in 1..Len(book) : book[i] \in HistoryIds

\* The reports of one kind printed so far, in order.
ReportsOfKind(kind) ==
    LET IsKind(r) == r.kind = kind
    IN SelectSeq(stdout, IsKind)

OrderReports == ReportsOfKind("order should not go back")
NotInBookReports == ReportsOfKind("change in code but book")

\* The loop over the book is through / both loops are through.
ScanDone ==
    pc \in {"report", "verdict", "codeblocks", "images"} \/ (pc = "exit" /\ is_fix_needed)
ReportDone == pc \in {"verdict", "codeblocks", "images"} \/ (pc = "exit" /\ is_fix_needed)

NonDecreasing(pos) == \A i, j \in 1..Len(pos) : i < j => pos[i] <= pos[j]
StrictlyIncreasing(pos) == \A i, j \in 1..Len(pos) : i < j => pos[i] < pos[j]

\* C7 as claimed: when every id of the book is in history and the positions
\* never decrease in scan order, no "order should not go back" is reported.
NoFalseOrderAsClaimed ==
    ScanDone =>
        \A book \in {Book} :
            (AllValid(book) /\ NonDecreasing(Positions(book))) => OrderReports = <<>>

\* C7: when every id of the book is in history and the positions strictly
\* increase in scan order, no "order should not go back" is reported.
NoFalseOrder ==
    ScanDone =>
        \A book \in {Book} :
            (AllValid(book) /\ StrictlyIncreasing(Positions(book))) => OrderReports = <<>>

NoFalseOrderWitness ==
    /\ pc = "codeblocks" /\ Len(files) = 2
    /\ \E book \in {Book} :
          /\ Len(book) >= 2
          /\ AllValid(book) /\ StrictlyIncreasing(Positions(book))
    /\ OrderReports = <<>>

\* The pairs of scan positions of which the later has the earlier commit.
Inversions(pos) ==
    {p \in (1..Len(pos)) \X (1..Len(pos)) : p[1] < p[2] /\ pos[p[1]] > pos[p[2]]}

Distinct(book) == \A i, j \in 1..Len(book) : i # j => book[i] # book[j]

\* There is one report, and it is about the later element of every inversion.
OneReportOnLater(book, inversions) ==
    /\ Len(OrderReports) = 1
    /\ \A p \in inversions : OrderReports[1].id = book[p[2]]

\* C8 as claimed: when every id of the book is in history and one position
\* appears before an earlier one, exactly one "order should not go back" is
\* reported, and it names the later element.
SingleInversionAsClaimed ==
    ScanDone =>
        \A book \in {Book} :
            AllValid(book) =>
                \A inversions \in {Inversions(Positions(book))} :
                    Cardinality(inversions) = 1 => OneReportOnLater(book, inversions)

\* C8: when the ids of the book are distinct, all in history, and one position
\* appears before an earlier one, exactly one "order should not go back" is
\* reported, and it names the later element.
SingleInversion ==
    ScanDone =>
        \A book \in {Book} :
            (AllValid(book) /\ Distinct(book)) =>
                \A inversions \in {Inversions(Positions(book))} :
                    Cardinality(inversions) = 1 => OneReportOnLater(book, inversions)

SingleInversionWitness ==
    /\ pc = "exit" /\ status = "err"
    /\ \E book \in {Book} :
          /\ Len(book) = 3 /\ AllValid(book) /\ Distinct(book)
          /\ \E inversions \in {Inversions(Positions(book))} :
                Cardinality(inversions) = 1 /\ OneReportOnLater(book, inversions)

\* The history entries from the i-th oldest on that must be reported when the
\* book refers to `ids`, oldest first.
RECURSIVE Unreferenced(_, _)
Unreferenced(i, ids) ==
    IF i > Len(Chronological) THEN <<>>
    ELSE IF Chronological[i].change_id \notin ids
            /\ ~Contains(Chronological[i].title, SKIP_EXPLAIN)
    THEN <<NotInBookReport(Chronological[i])>> \o Unreferenced(i + 1, ids)
    ELSE Unreferenced(i + 1, ids)

\* C9: once the pass has gone through history, it has reported exactly the
\* entries whose change id is in no document and whose title lacks
\* "SKIP_EXPLAIN: ", oldest first; and with such a report the pass does not
\* go on to the next one, it ends the run with an error.
UnreferencedReported ==
    ReportDone =>
        \A due \in {Unreferenced(1, IdsOf(Book))} :
            /\ NotInBookReports = due
            /\ (due # <<>> /\ pc # "verdict") => (pc = "exit" /\ status = "err")

UnreferencedReportedWitness ==
    /\ pc = "exit" /\ status = "err"
    /\ Len(Chronological) = 3
    /\ \E ids \in {IdsOf(Book)} :
          /\ ID_Z \in HistoryIds /\ ID_Z \notin ids /\ ids # {}
          /\ Len(NotInBookReports) = 1 /\ NotInBookReports = Unreferenced(1, ids)


Max(a, b) == IF a >= b THEN a ELSE b

\* The ids of `ids`, all of history, that go back when the scan starts with
\* watermark w: an id below the watermark goes back and leaves it, any other
\* id is accepted and moves it past its position.
RECURSIVE GoesBack(_, _, _)
GoesBack(ids, i, w) ==
    IF i > Len(ids) THEN <<>>
    ELSE IF Position(ids[i]) < w THEN <<ids[i]>> \o GoesBack(ids, i + 1, w)
    ELSE GoesBack(ids, i + 1, Max(w, Position(ids[i])) + 1)

\* The book without the ids history does not have.
KnownOnly(book) == SelectSeq(book, LAMBDA id : id \in HistoryIds)

\* The line the step has printed is a report of `kind` on `id`.
HasPrinted(kind, id) ==
    /\ Len(stdout') = Len(stdout) + 1
    /\ SubSeq(stdout', 1, Len(stdout)) = stdout
    /\ stdout'[Len(stdout')].kind = kind
    /\ stdout'[Len(stdout')].id = id

\* What one step of the scan does to the watermark and to the output.
WatermarkStep ==
    pc = "scan" =>
        \A id \in {change_ids_in_book[cursor]}, w \in {next_expected_order} :
            /\ next_expected_order' >= w
            /\ id \notin HistoryIds =>
                   /\ next_expected_order' = w
                   /\ HasPrinted("change_id not found in the code", id)
            /\ (id \in HistoryIds /\ Position(id) < w) =>
                   /\ next_expected_order' = w
                   /\ HasPrinted("order should not go back", id)
            /\ (id \in HistoryIds /\ Position(id) >= w) =>
                   /\ next_expected_order' = Max(w, Position(id)) + 1
                   /\ stdout' = stdout

\* C15: during the scan the watermark never decreases; an id that history
\* does not have is reported as not found and leaves the watermark, an id
\* below the watermark is reported as going back and leaves it, an accepted id
\* at position p sets it to max(watermark, p) + 1; and when the scan is
\* through, the ids reported as going back are those that go back in the book
\* with the unknown ids removed.
WatermarkDiscipline ==
    /\ [][WatermarkStep]_vars
    /\ [](ScanDone =>
            [i \in 1..Len(OrderReports) |-> OrderReports[i].id] = GoesBack(KnownOnly(Book), 1, 0))

\* A scan is through in which an unknown id was met, an id was accepted and a
\* later id went back.
WatermarkWitness ==
    /\ ScanDone
    /\ next_expected_order > 0
    /\ Len(OrderReports) >= 1
    /\ \E i, j \in 1..Len(stdout) :
          /\ i < j
          /\ stdout[i].kind = "change_id not found in the code"
          /\ stdout[j].kind = "order should not go back"

----------------------------------------------------------------------------
(* Properties of a whole check run. An issue is what a pass reports when   *)
(* it is run on the files by itself.                                       *)

ConsistencyKinds ==
    {"order should not go back", "change_id not found in the code", "change in code but book"}
LanguageKinds == {"blank block lang", "Unknown block lang"}
ImageKinds == {"image"}

\* The lines of the given kinds the run has printed, in order.
Printed(kinds) == SelectSeq(stdout, LAMBDA r : r.kind \in kinds)

\* What the language pass finds in the files: its diagnostics, and whether a
\* file ends inside a block.
LanguageIssues(fs) ==
    LET found == extract_codeblock_start_markers(fs, 1)
    IN IF found.ok THEN CodeblockReports(found.val, 1, 0) ELSE <<>>
EndsInsideBlock(fs) == ~extract_codeblock_start_markers(fs, 1).ok

\* What the image pass finds in the files.
ImageIssues(fs) == ImageReports(extract_image_source_comments(fs, 1), 1)

\* The run has ended and every file and the history could be read.
CheckEnded == pc = "exit" /\ events \cap {"io", "backend"} = {}

\* The pass a printed line belongs to; the banner is the same line in all three.
PassOfKind(kind) ==
    IF kind \in ConsistencyKinds \cup {"Total"} THEN 1
    ELSE IF kind \in LanguageKinds THEN 2
    ELSE IF kind \in ImageKinds THEN 3
    ELSE 0

\* The lines of the passes come in the order of the passes.
InPassOrder(out) ==
    \A i, j \in 1..Len(out) :
        (i < j /\ PassOfKind(out[i].kind) # 0 /\ PassOfKind(out[j].kind) # 0)
            => PassOfKind(out[i].kind) <= PassOfKind(out[j].kind)

\* C11 (as claimed): a run that ends has printed the diagnostics of every issue
\* any of the three passes finds in the files, in the order of the passes, and
\* it fails exactly when there is such an issue.
CheckReportsEveryIssue ==
    CheckEnded =>
        \A language \in {LanguageIssues(files)}, image \in {ImageIssues(files)} :
            /\ InPassOrder(stdout)
            /\ Printed(LanguageKinds) = language
            /\ Printed(ImageKinds) = image
            /\ status = "err" <=>
                   \/ Printed(ConsistencyKinds) # <<>>
                   \/ language # <<>> \/ EndsInsideBlock(files)
                   \/ image # <<>>

\* C11 (amended): the passes run in order and the run ends at the first pass
\* that finds an issue. The diagnostics of a pass are printed exactly when no
\* earlier pass found an issue, a banner is printed for every pass that found
\* none, and the run fails exactly when some pass finds an issue in the files.
CheckStopsAtFirstFailingPass ==
    CheckEnded =>
        \A language \in {LanguageIssues(files)}, image \in {ImageIssues(files)} :
            \A failed1 \in {Printed(ConsistencyKinds) # <<>>},
               failed2 \in {language # <<>> \/ EndsInsideBlock(files)} :
                /\ InPassOrder(stdout)
                /\ Printed(LanguageKinds) = IF failed1 THEN <<>> ELSE language
                /\ Printed(ImageKinds) = IF failed1 \/ failed2 THEN <<>> ELSE image
                /\ Len(Printed({"PASS"})) =
                       IF failed1 THEN 0 ELSE IF failed2 THEN 1
                       ELSE IF image # <<>> THEN 2 ELSE 3
                /\ status = "err" <=> (failed1 \/ failed2 \/ image # <<>>)
                /\ status = "ok" <=> ~(failed1 \/ failed2 \/ image # <<>>)

\* A run has ended at the consistency pass over files in which the other two
\* passes find issues as well.
CheckStopsWitness ==
    /\ CheckEnded /\ status = "err"
    /\ Printed(ConsistencyKinds) # <<>>
    /\ LanguageIssues(files) # <<>> /\ ImageIssues(files) # <<>>
    /\ Printed(LanguageKinds) = <<>> /\ Printed(ImageKinds) = <<>>


\* The image pass has run: the two passes before it printed their banners.
ImagePassDone == CheckEnded /\ Len(Printed({"PASS"})) >= 2

\* The images of one file that are to be flagged, from line k on: an image
\* with no line before it, with a line before it that is no comment, or with
\* an empty caption.
RECURSIVE ImagesToFlag(_, _, _)
ImagesToFlag(ls, k, path) ==
    IF k > Len(ls) THEN <<>>
    ELSE (IF /\ IsImage(ls[k])
             /\ \/ k = 1
                \/ ~StartsWith(ls[k - 1], <<COMMENT_OPEN, SP>>)
                \/ Contains(ls[k], <<"!", "[", "]">>)
          THEN <<<<path, ls[k]>>>> ELSE <<>>) \o ImagesToFlag(ls, k + 1, path)

RECURSIVE ImagesToFlagIn(_, _)
ImagesToFlagIn(fs, p) ==
    IF p > Len(fs) THEN <<>>
    ELSE ImagesToFlag(Lines(fs[p]), 1, p) \o ImagesToFlagIn(fs, p + 1)

\* The images the pass has flagged: the file and the line of each diagnostic.
FlaggedImages ==
    LET printed == Printed(ImageKinds)
    IN [i \in 1..Len(printed) |-> <<printed[i].path[1], printed[i].id[2]>>]

\* C14: once the image pass has run, it has flagged exactly the image lines
\* of the checked files whose preceding line is not a comment, an image on the
\* first line of a file among them, and those with the empty caption "![]".
ImageCaptionsChecked == ImagePassDone => FlaggedImages = ImagesToFlagIn(files, 1)

----------------------------------------------------------------------------
(* fix.rs: format_patch followed on its own, over the diffs of one file.   *)

CARGO_TOML == <<"Cargo", ".toml">>
README_MD == <<"README", ".md">>

\* The four lines git prints before the hunks of a file.
DiffHeader(filename) ==
    <<DIFF_GIT \o <<SP, "a/">> \o filename \o <<SP, "b/">> \o filename,
      <<"index", SP, "e7a11a9..2c7001e", SP, "100644">>,
      <<"-", "-", "-", SP, "a/">> \o filename,
      <<"+", "+", "+", SP, "b/">> \o filename>>

HunkHeader79 == <<HUNK_MARK, SP, "-", "7", ",", "3", SP, "+", "9", ",", "5", SP, HUNK_MARK>>
ADDED == <<"+", "new">>
REMOVED == <<"-", "old">>
CONTEXT == <<SP, "same">>
ADDED_BLANK == <<"+">>
EMPTY_LINE == <<>>
NO_NEWLINE == <<"\\", SP, "No", SP, "newline">>
DASHES == <<"-", "-", "-", SP, "flag">>

\* The lines the body of a diff is drawn from: two hunk headers, the three
\* kinds of content line, an added empty line, a line with nothing on it, a
\* line of a kind the formatter does not know, and a line that starts like
\* the old-file line of the header.
DiffLines ==
    {HunkHeader11, HunkHeader79, ADDED, REMOVED, CONTEXT, ADDED_BLANK, EMPTY_LINE,
     NO_NEWLINE, DASHES}

\* The inputs: every body under the header of a Rust file, one diff of a
\* file of another known kind and of an unknown kind, and the two inputs of
\* the test format_patch_samples that are not diffs.
InitFormat ==
    /\ \/ \E n \in 0..MaxDiff : \E body \in [1..n -> DiffLines] :
              diff_text = Text(DiffHeader(MAIN_RS) \o body)
       \/ \E f \in {CARGO_TOML, README_MD} :
              diff_text = Text(DiffHeader(f) \o <<HunkHeader11, ADDED>>)
       \/ diff_text \in {<<>>, <<"aaa">>}
    /\ formatted = NotCalled
    /\ git_log = <<>> /\ summary = NotCalled
    /\ repo = RepoGit
    /\ files = <<>> /\ original = <<>>
    /\ fidx = 1
    /\ pc = "format"
    /\ status = "running"
    /\ lines = <<>> /\ stderr = <<>> /\ events = {} /\ run = 1 /\ snapshot = <<>>
    /\ CheckIdle

\* fix.rs:100-236: one call of format_patch, made as the test
\* format_patch_samples makes it, without the commit the patch comes from.
FormatPatch ==
    /\ pc = "format"
    /\ formatted' = format_patch(diff_text, repo, None)
    /\ pc' = "exit"
    /\ UNCHANGED <<diff_text, logVars, repo, files, fidx, status, fixVars, checkVars>>

NextFormat == FormatPatch

SpecFormat == InitFormat /\ [][NextFormat]_vars

----------------------------------------------------------------------------
(* Properties of format_patch. The lines of a diff are read here as the    *)
(* unified-diff format defines them, without the operators of the model.   *)

TagSet == {"+", "-", SP}

\* A line that starts like one of the lines git prints around the hunks.
IsMetadataLine(l) ==
    \E p \in {DIFF_GIT, <<"index", SP>>, <<"-", "-", "-">>, <<"+", "+", "+">>,
              <<"new", SP, "file">>} : StartsWith(l, p)
IsHunkHeader(l) == StartsWith(l, <<HUNK_MARK, SP>>)

\* The hunk headers and content lines of a diff, in input order, and the
\* content lines among them.
HunkLines(text) == SelectSeq(Lines(text), LAMBDA l : ~IsMetadataLine(l))
ContentLines(hl) == SelectSeq(hl, LAMBDA l : ~IsHunkHeader(l))

\* The file of a diff, and whether the table knows its kind.
FilesOf(text) == {f \in {MAIN_RS, CARGO_TOML, README_MD} : StartsWith(text, Text(DiffHeader(f)))}
IsRecognized(f) == f \in {MAIN_RS, CARGO_TOML}

\* A diff of one file of a known kind whose hunks each start with a header
\* and hold lines of the three kinds only; hl are its hunk lines.
WellFormed(text, hl) ==
    /\ hl # <<>> => IsHunkHeader(hl[1])
    /\ \A i \in 1..Len(hl) : IsHunkHeader(hl[i]) \/ (hl[i] # <<>> /\ hl[i][1] \in TagSet)
    /\ \E f \in FilesOf(text) : IsRecognized(f)

\* A content line as the book shows it.
Wrapped(l) ==
    IF l[1] = "+" THEN <<"**">> \o Tail(l) \o <<"**">>
    ELSE IF l[1] = "-" THEN <<"~~">> \o Tail(l) \o <<"~~">>
    ELSE Tail(l)

\* The non-empty content lines among hl as the book shows them, in order.
ExpectedContent(hl) ==
    LET kept == SelectSeq(ContentLines(hl), LAMBDA l : Len(l) > 1)
    IN [i \in 1..Len(kept) |-> Wrapped(kept[i])]

\* The lines of a rendering that show content: not empty, not the marker.
RenderedContent(out) == SelectSeq(out, LAMBDA l : l # <<>> /\ l # ELISION)

HasUnknownTag(l) == l = <<>> \/ l[1] \notin TagSet

\* C13 (as claimed): a diff with a content line whose first character is not
\* '+', '-' or ' ' is never rendered: formatting ends in a fatal error.
UnknownTagIsFatal ==
    formatted.status # "none" =>
        \A cl \in {ContentLines(HunkLines(diff_text))} :
            (\E i \in 1..Len(cl) : HasUnknownTag(cl[i])) => formatted.status \in {"err", "panic"}

\* The hunks hold, besides lines of the three kinds, only lines that have
\* nothing after their first character.
WellFormedButBlank(text, hl) ==
    /\ hl # <<>> => IsHunkHeader(hl[1])
    /\ \A i \in 1..Len(hl) : IsHunkHeader(hl[i]) \/ Len(hl[i]) <= 1 \/ hl[i][1] \in TagSet
    /\ \E f \in FilesOf(text) : IsRecognized(f)

\* C13 (amended): a diff with a content line that has text after a first
\* character other than '+', '-' and ' ' is never rendered: formatting ends
\* in a fatal error. A content line with nothing after its first character
\* is rendered as an empty line whatever that character is.
UnknownTagWithTextIsFatal ==
    formatted.status # "none" =>
        \A hl \in {HunkLines(diff_text)} : \A cl \in {ContentLines(hl)} :
            /\ (\E i \in 1..Len(cl) : Len(cl[i]) > 1 /\ HasUnknownTag(cl[i]))
                   => formatted.status \in {"err", "panic"}
            /\ WellFormedButBlank(diff_text, hl) =>
                   /\ formatted.status = "ok"
                   /\ \A out \in {Lines(formatted.output)} :
                         Len(out) = 4 + Len(cl) + 3 * Len(SelectSeq(out, LAMBDA l : l = ELISION))

\* Formatting has ended in a panic on a diff of a known kind of file whose
\* first hunk holds a line of an unknown kind.
UnknownTagWitness ==
    /\ formatted.status = "panic"
    /\ \E f \in FilesOf(diff_text) : IsRecognized(f)
    /\ \A hl \in {HunkLines(diff_text)} :
          /\ Len(hl) >= 2 /\ IsHunkHeader(hl[1])
          /\ \E i \in 2..Len(hl) :
                ~IsHunkHeader(hl[i]) /\ Len(hl[i]) > 1 /\ HasUnknownTag(hl[i])


\* The header of a hunk starts at line 1 of the old file.
StartsAtLineOne(l) == StartsWith(l, <<HUNK_MARK, SP, "-", "1", ",">>)

\* The rendering of the hunk lines hl from line i on, with the elision marker
\* before every hunk that is not the first of the segment and does not start
\* at line 1.
RECURSIVE BodyWithElisions(_, _)
BodyWithElisions(hl, i) ==
    IF i > Len(hl) THEN <<>>
    ELSE (IF IsHunkHeader(hl[i])
          THEN (IF i > 1 /\ ~StartsAtLineOne(hl[i])
                THEN <<NL>> \o ELISION \o <<NL, NL>> ELSE <<>>)
          ELSE IF Len(hl[i]) <= 1 THEN <<NL>>
          ELSE Wrapped(hl[i]) \o <<NL>>) \o BodyWithElisions(hl, i + 1)

\* C16: in the rendering of a well-formed diff of one file the elision marker
\* stands before a hunk if and only if the hunk is not the first of the
\* segment and its header does not start at line 1; every second or later
\* hunk that does not start at line 1 is preceded by the marker.
ElisionBeforeLaterHunks ==
    formatted.status # "none" =>
        \A hl \in {HunkLines(diff_text)} :
            WellFormed(diff_text, hl) =>
                \A f \in FilesOf(diff_text) :
                    formatted.output =
                        <<NL, FENCE, FenceLang(f).val, NL, NOTE_OPEN>> \o f \o <<")", NL>>
                            \o BodyWithElisions(hl, 1) \o <<FENCE, NL>>


----------------------------------------------------------------------------
(* repo.rs: all_commit_summary_in_tree followed on its own, over the logs  *)
(* of trees whose commits carry no, one or two Change-Id lines.            *)

\* A commit of id with the given Change-Ids in its message.
CommitWith(id, ids) == [hash |-> <<"commit-of-">> \o id, title |-> TitleOf(id), change_ids |-> ids]

LogCommits ==
    {CommitWith(id, ids) : id \in CheckIds, ids \in {<<>>, <<ID_X>>, <<ID_Y, ID_Z>>}}

InitLog ==
    /\ \E n \in 0..MaxHistory : \E tree \in [1..n -> LogCommits] : git_log = GitLog(tree)
    /\ summary = NotCalled
    /\ diff_text = <<>> /\ formatted = NotCalled
    /\ repo = RepoGit
    /\ files = <<>> /\ original = <<>>
    /\ fidx = 1
    /\ pc = "log"
    /\ status = "running"
    /\ lines = <<>> /\ stderr = <<>> /\ events = {} /\ run = 1 /\ snapshot = <<>>
    /\ CheckIdle

\* repo.rs:101-127: the command succeeded and its output is read.
Summarize ==
    /\ pc = "log"
    /\ summary' = [status |-> "ok", output |-> CommitSummaries(git_log)]
    /\ pc' = "exit"
    /\ UNCHANGED <<git_log, formatVars, repo, files, fidx, status, fixVars, checkVars>>

\* repo.rs:99-100: the command failed and an error is returned.
SummarizeFails ==
    /\ pc = "log"
    /\ summary' = [status |-> "err", output |-> <<>>]
    /\ pc' = "exit"
    /\ UNCHANGED <<git_log, formatVars, repo, files, fidx, status, fixVars, checkVars>>

NextLog ==
    \/ Summarize
    \/ SummarizeFails

SpecLog == InitLog /\ [][NextLog]_vars

----------------------------------------------------------------------------
(* Properties of all_commit_summary_in_tree. The commits are read off the  *)
(* log as git printed it: an entry begins at every line of the format.     *)

\* The Change-Ids on the lines from i up to the next entry.
RECURSIVE ChangeIdsFrom(_, _)
ChangeIdsFrom(ls, i) ==
    IF i > Len(ls) \/ StartsWith(ls[i], COMMIT_KEY) THEN <<>>
    ELSE (IF StartsWith(ls[i], CHANGE_ID_KEY)
          THEN <<Trim(SubSeq(ls[i], 3, Len(ls[i])))>> ELSE <<>>) \o ChangeIdsFrom(ls, i + 1)

\* The commits of a log, in the order of the log.
RECURSIVE CommitsOfLog(_, _)
CommitsOfLog(ls, i) ==
    IF i > Len(ls) THEN <<>>
    ELSE IF StartsWith(ls[i], COMMIT_KEY)
    THEN LET named == SplitOnce(SubSeq(ls[i], 3, Len(ls[i])), <<":">>)
         IN <<[hash |-> named.val[1], title |-> named.val[2],
               change_ids |-> ChangeIdsFrom(ls, i + 1)]>> \o CommitsOfLog(ls, i + 1)
    ELSE CommitsOfLog(ls, i + 1)

\* C17: the entries all_commit_summary_in_tree returns are the commits of
\* the log, one entry for every commit and in the order of the log, each with
\* the hash and the title of its commit and with a Change-Id of that commit
\* when the commit carries any.
SummaryPairsEachCommit ==
    summary.status = "ok" =>
        \A commits \in {CommitsOfLog(Lines(git_log), 1)} :
            /\ Len(summary.output) = Len(commits)
            /\ \A i \in 1..Len(commits) :
                  /\ summary.output[i].hash = commits[i].hash
                  /\ summary.output[i].title = commits[i].title
                  /\ commits[i].change_ids # <<>> =>
                         \E k \in 1..Len(commits[i].change_ids) :
                             summary.output[i].change_id = commits[i].change_ids[k]

====
